---- MODULE Spec2Model ----
(***************************************************************************)
(* Model of the multi-channel viewer GainPlotApp (src/plot.py): channel    *)
(* visibility / gain / active selection, the vertical and horizontal       *)
(* cursor pairs, the drag flag and the two measurement text boxes.         *)
(*                                                                         *)
(* Units.  Time-axis coordinates are in 1/100 s, amplitude-axis            *)
(* coordinates in 1/1000 V, gains in tenths (0.5 -> 5, 1.0 -> 10, ...).    *)
(* The channel data is the data of create_dummy_data (the repository has   *)
(* no channel CSV files): time 0..10 s, amplitudes within [-1, 1].         *)
(***************************************************************************)
EXTENDS Integers, Sequences, FiniteSets

(***************************************************************************)
(* State.                                                                  *)
(*   var_visible, var_gain  the Tk variables of each channel row           *)
(*   active_channel         index of the active channel                    *)
(*   cursor_clicks          click buffer of the vertical (time) cursors    *)
(*   h_cursor_clicks        click buffer of the horizontal cursors         *)
(*   dragging               "None", "v1", "v2", "h1" or "h2"               *)
(*   cursor1 .. cursor_h2   the four cursor glyphs: visibility and data    *)
(*   delta_text             time measurement box: visibility and text      *)
(*                          <<delta, frequency, channel>>                  *)
(*   delta_y_text           amplitude measurement box: <<delta, channel>>  *)
(*   channel_data           per channel, the amplitude column of its table  *)
(*                          at the sample rows of SampleRows, in 1/1000 V   *)
(*   lines                  per channel, the series drawn on the axes by    *)
(*                          the last plot(), in 1/10000 V; <<>> if the      *)
(*                          channel was not drawn                           *)
(*   files                  what channel<N>.csv is on disk: "absent",       *)
(*                          "notime" (no Time column) or "time"             *)
(*   viewer                 "start" before GainPlotApp(root) has run,       *)
(*                          "open" once it returned, "aborted" if it raised *)
(* History, not read by any handler.                                       *)
(*   raised        the handler of the last event raised an exception       *)
(*   last_updated  axis whose pair a press completed or a drag updated     *)
(*                 last: "none", "v" or "h"                                *)
(*   last_event    <<kind, channel, boxes checked at handler entry>>       *)
(*   events        number of events handled so far                         *)
(* on_mouse_move only writes the coordinate label and is left out.         *)
(***************************************************************************)

VARIABLES var_visible, var_gain, active_channel,
          cursor_clicks, h_cursor_clicks, dragging,
          cursor1, cursor2, cursor_h1, cursor_h2,
          delta_text, delta_y_text,
          channel_data, lines, files, viewer,
          raised, last_updated, last_event, events

vars == <<var_visible, var_gain, active_channel,
          cursor_clicks, h_cursor_clicks, dragging,
          cursor1, cursor2, cursor_h1, cursor_h2,
          delta_text, delta_y_text,
          channel_data, lines, files, viewer,
          raised, last_updated, last_event, events>>

(***************************************************************************)
(* Bounds of the model.                                                    *)
(***************************************************************************)
\* how many of the points of PointList the pointer may be at
MaxPoints == 2
\* how many entries of gain_values the gain combobox may select
MaxGainIdx == 2
\* how many events a session handles
MaxEvents == 5
\* how many events a session of the control panel alone handles
MaxPanelEvents == 3

\* pointer locations <<event.xdata, event.ydata>>.  Time 1.00 s and 1.25 s
\* are 0.25 s apart; 1.22 s is nearer to 1.25 s than the 0.22 s threshold
\* and exactly 0.22 s from 1.00 s.  Amplitudes 0 and 0.044 are exactly the
\* threshold apart at gain 1 and nearer than it at gain 2.
PointList == <<(<<100, 0>>), (<<125, 44>>), (<<122, 22>>), (<<111, -300>>)>>
Points == {PointList[i] : i \in 1..MaxPoints}

(***************************************************************************)
(* Program constants.                                                      *)
(***************************************************************************)
NumChannels == 3
Channels == 0..(NumChannels - 1)
gain_values == <<5, 10, 20, 50, 100>>
GainChoices == {gain_values[i] : i \in 1..MaxGainIdx}
Buttons == {1, 2, 3}
\* the frequency text "Freq = ∞"
Infinite == -1
\* the text '' of a freshly created text box
EmptyText == <<>>
\* a glyph as created by axvline()/axhline(): at 0, not visible
NewCursor == [visible |-> FALSE, data |-> 0]
NewText == [visible |-> FALSE, text |-> EmptyText]

\* the rows of the 1000-row tables that the model keeps: t = 0, 1.001, 2.503 s
SampleRows == <<0, 100, 250>>
\* sin(2 pi t), cos(pi t) and sign(sin(pi t / 2)) at the rows of SampleRows
create_dummy_data == <<(<<0, 6, -16>>), (<<1000, -1000, -8>>), (<<0, 1000, -1000>>)>>
\* the amplitude columns of three CSV files that have a Time column
read_csv == <<(<<250, 500, 750>>), (<<-500, 0, 500>>), (<<100, -100, 100>>)>>
\* no table was loaded
NoData == <<(<<>>), (<<>>), (<<>>)>>
NoLines == [c \in Channels |-> <<>>]
FileStates == {"absent", "notime", "time"}

Abs(n) == IF n < 0 THEN -n ELSE n
Max(a, b) == IF a > b THEN a ELSE b
Min(a, b) == IF a < b THEN a ELSE b

\* the application object, as a record of its fields
app == [var_visible |-> var_visible, var_gain |-> var_gain,
        active_channel |-> active_channel,
        cursor_clicks |-> cursor_clicks, h_cursor_clicks |-> h_cursor_clicks,
        dragging |-> dragging,
        cursor1 |-> cursor1, cursor2 |-> cursor2,
        cursor_h1 |-> cursor_h1, cursor_h2 |-> cursor_h2,
        delta_text |-> delta_text, delta_y_text |-> delta_y_text,
        channel_data |-> channel_data, lines |-> lines,
        raised |-> raised, last_updated |-> last_updated,
        last_event |-> last_event]

Become(s) ==
    /\ var_visible' = s.var_visible
    /\ var_gain' = s.var_gain
    /\ active_channel' = s.active_channel
    /\ cursor_clicks' = s.cursor_clicks
    /\ h_cursor_clicks' = s.h_cursor_clicks
    /\ dragging' = s.dragging
    /\ cursor1' = s.cursor1
    /\ cursor2' = s.cursor2
    /\ cursor_h1' = s.cursor_h1
    /\ cursor_h2' = s.cursor_h2
    /\ delta_text' = s.delta_text
    /\ delta_y_text' = s.delta_y_text
    /\ channel_data' = s.channel_data
    /\ lines' = s.lines
    /\ UNCHANGED <<files, viewer>>
    /\ viewer = "open"
    /\ raised' = s.raised
    /\ last_updated' = s.last_updated
    /\ last_event' = s.last_event
    /\ events < MaxEvents
    /\ events' = events + 1

(***************************************************************************)
(* Axis limits: autoscaled view of the plotted (visible) channels with the *)
(* default 5% margin.  Time data spans 0..1000, a channel's scaled         *)
(* amplitude spans -100*gain .. 100*gain.                                  *)
(***************************************************************************)
get_xlim(s) == <<-50, 1050>>

MaxVisibleGain(s) ==
    LET gs == {s.var_gain[c] : c \in {d \in Channels : s.var_visible[d]}}
    IN  IF gs = {} THEN 0 ELSE CHOOSE g \in gs : \A h \in gs : h <= g

get_ylim(s) == <<-110 * MaxVisibleGain(s), 110 * MaxVisibleGain(s)>>

\* f"{freq:.2f}" of freq = 1 / delta_x, in 1/100 Hz (delta_x in 1/100 s)
FormatFreq(delta_x) == (2 * 10000 + delta_x) \div (2 * delta_x)

(***************************************************************************)
(* DeltaCalculator                                                         *)
(***************************************************************************)
\* update_vertical_delta that leaves the amplitude text box as it is
update_vertical_delta_KeepOther(s) ==
    IF Len(s.cursor_clicks) = 2
    THEN LET delta_x == Abs(s.cursor_clicks[2] - s.cursor_clicks[1])
             txt == IF delta_x # 0
                    THEN <<delta_x, FormatFreq(delta_x), s.active_channel>>
                    ELSE <<0, Infinite, s.active_channel>>
         IN  [s EXCEPT !.delta_text = [visible |-> TRUE, text |-> txt]]
    ELSE s

\* update_vertical_delta that takes the difference without abs()
update_vertical_delta_Signed(s) ==
    IF Len(s.cursor_clicks) = 2
    THEN LET delta_x == s.cursor_clicks[2] - s.cursor_clicks[1]
             txt == IF delta_x # 0
                    THEN <<delta_x, FormatFreq(delta_x), s.active_channel>>
                    ELSE <<0, Infinite, s.active_channel>>
         IN  [s EXCEPT !.delta_text = [visible |-> TRUE, text |-> txt],
                       !.delta_y_text.visible = FALSE]
    ELSE s

update_vertical_delta(s) ==
    IF Len(s.cursor_clicks) = 2
    THEN LET delta_x == Abs(s.cursor_clicks[2] - s.cursor_clicks[1])
             txt == IF delta_x # 0
                    THEN <<delta_x, FormatFreq(delta_x), s.active_channel>>
                    ELSE <<0, Infinite, s.active_channel>>
         IN  [s EXCEPT !.delta_text = [visible |-> TRUE, text |-> txt],
                       !.delta_y_text.visible = FALSE]
    ELSE s

\* update_horizontal_delta that leaves the time measurement as it was
update_horizontal_delta_KeepOther(s) ==
    IF Len(s.h_cursor_clicks) = 2
    THEN LET delta_y == Abs(s.h_cursor_clicks[2] - s.h_cursor_clicks[1])
         IN  [s EXCEPT !.delta_y_text = [visible |-> TRUE,
                                         text |-> <<delta_y, s.active_channel>>]]
    ELSE s

update_horizontal_delta(s) ==
    IF Len(s.h_cursor_clicks) = 2
    THEN LET delta_y == Abs(s.h_cursor_clicks[2] - s.h_cursor_clicks[1])
         IN  [s EXCEPT !.delta_y_text = [visible |-> TRUE,
                                         text |-> <<delta_y, s.active_channel>>],
                       !.delta_text.visible = FALSE]
    ELSE s

\* clear_cursors that empties the lists but leaves the text boxes shown
clear_cursors_KeepText(s) ==
    [s EXCEPT !.cursor_clicks = <<>>, !.h_cursor_clicks = <<>>,
              !.cursor1.visible = FALSE, !.cursor2.visible = FALSE,
              !.cursor_h1.visible = FALSE, !.cursor_h2.visible = FALSE]

clear_cursors(s) ==
    [s EXCEPT !.cursor_clicks = <<>>,
              !.h_cursor_clicks = <<>>,
              !.cursor1.visible = FALSE,
              !.cursor2.visible = FALSE,
              !.cursor_h1.visible = FALSE,
              !.cursor_h2.visible = FALSE,
              !.delta_text.visible = FALSE,
              !.delta_y_text.visible = FALSE]

(***************************************************************************)
(* plot(): redraw.                                                         *)
(***************************************************************************)
\* plot that shows nothing when no channel is selected
ShowAtLeastOne_Skip(s) == s

\* plot that shows the active channel when no channel is selected
ShowAtLeastOne_Active(s) ==
    IF \E c \in Channels : s.var_visible[c]
    THEN s
    ELSE [s EXCEPT !.var_visible[s.active_channel] = TRUE]

\* lines 248-262: show channel 0 when no channel is selected
ShowAtLeastOne(s) ==
    IF \E c \in Channels : s.var_visible[c]
    THEN s
    ELSE [s EXCEPT !.var_visible[0] = TRUE]

\* scaled_amplitude that multiplies every channel by channel 0's gain
scaled_amplitude_FirstGain(s, c) ==
    [k \in 1..Len(s.channel_data[c + 1]) |-> s.channel_data[c + 1][k] * s.var_gain[0]]

\* df[amplitude_col] * var_gain.get() of channel c
scaled_amplitude(s, c) ==
    [k \in 1..Len(s.channel_data[c + 1]) |-> s.channel_data[c + 1][k] * s.var_gain[c]]

\* ax.clear(), then one ax.plot() per checked channel
PlotLines(s) ==
    [s EXCEPT !.lines = [c \in Channels |->
                            IF s.var_visible[c] THEN scaled_amplitude(s, c) ELSE <<>>]]

\* lines 270-284: the glyphs and text boxes are created anew
Reinitialize(s) ==
    [s EXCEPT !.cursor1 = NewCursor, !.cursor2 = NewCursor,
              !.cursor_h1 = NewCursor, !.cursor_h2 = NewCursor,
              !.delta_text = NewText, !.delta_y_text = NewText]

RestoreVertical(s) ==
    LET a == IF Len(s.cursor_clicks) >= 1
             THEN [s EXCEPT !.cursor1 = [visible |-> TRUE, data |-> s.cursor_clicks[1]]]
             ELSE s
    IN  IF Len(s.cursor_clicks) >= 2
        THEN update_vertical_delta(
                 [a EXCEPT !.cursor2 = [visible |-> TRUE, data |-> s.cursor_clicks[2]]])
        ELSE a

RestoreHorizontal(s) ==
    LET a == IF Len(s.h_cursor_clicks) >= 1
             THEN [s EXCEPT !.cursor_h1 = [visible |-> TRUE, data |-> s.h_cursor_clicks[1]]]
             ELSE s
    IN  IF Len(s.h_cursor_clicks) >= 2
        THEN update_horizontal_delta(
                 [a EXCEPT !.cursor_h2 = [visible |-> TRUE, data |-> s.h_cursor_clicks[2]]])
        ELSE a

plot(s) ==
    LET a == Reinitialize(PlotLines(ShowAtLeastOne(s)))
    IN  IF a.var_visible[a.active_channel]
        THEN RestoreHorizontal(RestoreVertical(a))
        ELSE [a EXCEPT !.cursor_clicks = <<>>, !.h_cursor_clicks = <<>>]

update_plot(s) ==
    plot(IF ~s.var_visible[s.active_channel] THEN clear_cursors(s) ELSE s)

(***************************************************************************)
(* ChannelRegistry handlers                                                *)
(***************************************************************************)
\* on_channel_visibility_change that clears the cursors whenever a channel is hidden
on_channel_visibility_change_ClearAlways(s, channel_idx) ==
    LET a == IF ~s.var_visible[channel_idx] THEN clear_cursors(s) ELSE s
        b == update_plot(a)
    IN  IF ~(\E c \in Channels : b.var_visible[c]) THEN clear_cursors(b) ELSE b

\* s is the state after the checkbutton has toggled its variable
on_channel_visibility_change(s, channel_idx) ==
    LET a == IF channel_idx = s.active_channel /\ ~s.var_visible[channel_idx]
             THEN clear_cursors(s) ELSE s
        b == update_plot(a)
    IN  IF ~(\E c \in Channels : b.var_visible[c]) THEN clear_cursors(b) ELSE b

\* set_active_channel that clears the cursors only for a hidden channel
set_active_channel_KeepCursors(s, channel_idx) ==
    LET a == [s EXCEPT !.active_channel = channel_idx]
    IN  IF ~a.var_visible[channel_idx]
        THEN update_plot([clear_cursors(a) EXCEPT !.var_visible[channel_idx] = TRUE])
        ELSE a

set_active_channel(s, channel_idx) ==
    LET a == [s EXCEPT !.active_channel = channel_idx]
    IN  IF ~a.var_visible[channel_idx]
        THEN update_plot([clear_cursors(a) EXCEPT !.var_visible[channel_idx] = TRUE])
        ELSE clear_cursors(a)

(***************************************************************************)
(* CursorStateMachine handlers                                             *)
(***************************************************************************)
\* abs(p - glyph) < (lim[1] - lim[0]) * 0.02
Near(p, glyph, lim) == 50 * Abs(p - glyph.data) < lim[2] - lim[1]

\* left click that appends to a full pair instead of restarting it
LeftClick_NoReset(s, x) ==
    IF s.cursor1.visible /\ Near(x, s.cursor1, get_xlim(s))
    THEN [s EXCEPT !.dragging = "v1"]
    ELSE IF s.cursor2.visible /\ Near(x, s.cursor2, get_xlim(s))
    THEN [s EXCEPT !.dragging = "v2"]
    ELSE
      LET b == [s EXCEPT !.cursor_clicks = Append(@, x)]
      IN  IF Len(b.cursor_clicks) = 1
          THEN [b EXCEPT !.cursor1 = [visible |-> TRUE, data |-> x]]
          ELSE IF Len(b.cursor_clicks) = 2
          THEN update_vertical_delta(
                   [b EXCEPT !.cursor2 = [visible |-> TRUE, data |-> x],
                             !.last_updated = "v"])
          ELSE b

\* left click that restarts a full pair but leaves its measurement shown
LeftClick_KeepMeasurement(s, x) ==
    IF s.cursor1.visible /\ Near(x, s.cursor1, get_xlim(s))
    THEN [s EXCEPT !.dragging = "v1"]
    ELSE IF s.cursor2.visible /\ Near(x, s.cursor2, get_xlim(s))
    THEN [s EXCEPT !.dragging = "v2"]
    ELSE
      LET a == IF Len(s.cursor_clicks) = 2
               THEN [s EXCEPT !.cursor_clicks = <<>>,
                              !.cursor1.visible = FALSE,
                              !.cursor2.visible = FALSE]
               ELSE s
          b == [a EXCEPT !.cursor_clicks = Append(@, x)]
      IN  IF Len(b.cursor_clicks) = 1
          THEN [b EXCEPT !.cursor1 = [visible |-> TRUE, data |-> x]]
          ELSE IF Len(b.cursor_clicks) = 2
          THEN update_vertical_delta(
                   [b EXCEPT !.cursor2 = [visible |-> TRUE, data |-> x],
                             !.last_updated = "v"])
          ELSE b

\* left click that restarts a full pair before it tests the proximity
LeftClick_ResetFirst(s, x) ==
    LET r == IF Len(s.cursor_clicks) = 2
             THEN [s EXCEPT !.cursor_clicks = <<>>,
                            !.cursor1.visible = FALSE,
                            !.cursor2.visible = FALSE,
                            !.delta_text.visible = FALSE]
             ELSE s
    IN  IF r.cursor1.visible /\ Near(x, r.cursor1, get_xlim(r))
        THEN [r EXCEPT !.dragging = "v1"]
        ELSE IF r.cursor2.visible /\ Near(x, r.cursor2, get_xlim(r))
        THEN [r EXCEPT !.dragging = "v2"]
        ELSE
          LET b == [r EXCEPT !.cursor_clicks = Append(@, x)]
          IN  IF Len(b.cursor_clicks) = 1
              THEN [b EXCEPT !.cursor1 = [visible |-> TRUE, data |-> x]]
              ELSE IF Len(b.cursor_clicks) = 2
              THEN update_vertical_delta(
                       [b EXCEPT !.cursor2 = [visible |-> TRUE, data |-> x],
                                 !.last_updated = "v"])
              ELSE b

LeftClick(s, x) ==
    IF s.cursor1.visible /\ Near(x, s.cursor1, get_xlim(s))
    THEN [s EXCEPT !.dragging = "v1"]
    ELSE IF s.cursor2.visible /\ Near(x, s.cursor2, get_xlim(s))
    THEN [s EXCEPT !.dragging = "v2"]
    ELSE
      LET a == IF Len(s.cursor_clicks) = 2
               THEN [s EXCEPT !.cursor_clicks = <<>>,
                              !.cursor1.visible = FALSE,
                              !.cursor2.visible = FALSE,
                              !.delta_text.visible = FALSE]
               ELSE s
          b == [a EXCEPT !.cursor_clicks = Append(@, x)]
      IN  IF Len(b.cursor_clicks) = 1
          THEN [b EXCEPT !.cursor1 = [visible |-> TRUE, data |-> x]]
          ELSE IF Len(b.cursor_clicks) = 2
          THEN update_vertical_delta(
                   [b EXCEPT !.cursor2 = [visible |-> TRUE, data |-> x],
                             !.last_updated = "v"])
          ELSE b

RightClick(s, y) ==
    IF s.cursor_h1.visible /\ Near(y, s.cursor_h1, get_ylim(s))
    THEN [s EXCEPT !.dragging = "h1"]
    ELSE IF s.cursor_h2.visible /\ Near(y, s.cursor_h2, get_ylim(s))
    THEN [s EXCEPT !.dragging = "h2"]
    ELSE
      LET a == IF Len(s.h_cursor_clicks) = 2
               THEN [s EXCEPT !.h_cursor_clicks = <<>>,
                              !.cursor_h1.visible = FALSE,
                              !.cursor_h2.visible = FALSE,
                              !.delta_y_text.visible = FALSE]
               ELSE s
          b == [a EXCEPT !.h_cursor_clicks = Append(@, y)]
      IN  IF Len(b.h_cursor_clicks) = 1
          THEN [b EXCEPT !.cursor_h1 = [visible |-> TRUE, data |-> y]]
          ELSE IF Len(b.h_cursor_clicks) = 2
          THEN update_horizontal_delta(
                   [b EXCEPT !.cursor_h2 = [visible |-> TRUE, data |-> y],
                             !.last_updated = "h"])
          ELSE b

\* on_click without the check of the active channel's visibility
on_click_NoVisibleCheck(s, inaxes, button, x, y) ==
    IF ~inaxes THEN s
    ELSE IF button = 1 THEN LeftClick(s, x)
    ELSE IF button = 3 THEN RightClick(s, y)
    ELSE s

on_click(s, inaxes, button, x, y) ==
    IF ~inaxes THEN s
    ELSE IF ~s.var_visible[s.active_channel] THEN s
    ELSE IF button = 1 THEN LeftClick(s, x)
    ELSE IF button = 3 THEN RightClick(s, y)
    ELSE s

\* on_release that leaves the drag flag as it is
on_release_Noop(s) == s

on_release(s) == [s EXCEPT !.dragging = "None"]

Clamp(p, lim) == Max(Min(p, lim[2]), lim[1])

\* the glyph is moved first; the store into the click list raises
\* IndexError when the list has no such entry
\* on_drag whose drag of the first vertical cursor stores into the second entry
on_drag_WrongEntry(s, inaxes, ex, ey) ==
    IF s.dragging = "None" \/ ~inaxes THEN s
    ELSE IF ~s.var_visible[s.active_channel] THEN s
    ELSE IF s.dragging = "v1" /\ Len(s.cursor_clicks) = 2
    THEN LET x == Clamp(ex, get_xlim(s))
         IN  update_vertical_delta(
                 [s EXCEPT !.cursor1.data = x, !.cursor_clicks[2] = x,
                           !.last_updated = "v"])
    ELSE IF s.dragging = "v2" /\ Len(s.cursor_clicks) = 2
    THEN LET x == Clamp(ex, get_xlim(s))
         IN  update_vertical_delta(
                 [s EXCEPT !.cursor2.data = x, !.cursor_clicks[2] = x,
                           !.last_updated = "v"])
    ELSE s

on_drag(s, inaxes, ex, ey) ==
    IF s.dragging = "None" \/ ~inaxes THEN s
    ELSE IF ~s.var_visible[s.active_channel] THEN s
    ELSE IF s.dragging = "v1"
    THEN LET x == Clamp(ex, get_xlim(s))
             a == [s EXCEPT !.cursor1.data = x]
         IN  IF Len(s.cursor_clicks) < 1 THEN [a EXCEPT !.raised = TRUE]
             ELSE update_vertical_delta(
                      [a EXCEPT !.cursor_clicks[1] = x,
                                !.last_updated = IF Len(s.cursor_clicks) = 2 THEN "v" ELSE @])
    ELSE IF s.dragging = "v2"
    THEN LET x == Clamp(ex, get_xlim(s))
             a == [s EXCEPT !.cursor2.data = x]
         IN  IF Len(s.cursor_clicks) < 2 THEN [a EXCEPT !.raised = TRUE]
             ELSE update_vertical_delta(
                      [a EXCEPT !.cursor_clicks[2] = x, !.last_updated = "v"])
    ELSE IF s.dragging = "h1"
    THEN LET y == Clamp(ey, get_ylim(s))
             a == [s EXCEPT !.cursor_h1.data = y]
         IN  IF Len(s.h_cursor_clicks) < 1 THEN [a EXCEPT !.raised = TRUE]
             ELSE update_horizontal_delta(
                      [a EXCEPT !.h_cursor_clicks[1] = y,
                                !.last_updated = IF Len(s.h_cursor_clicks) = 2 THEN "h" ELSE @])
    ELSE IF s.dragging = "h2"
    THEN LET y == Clamp(ey, get_ylim(s))
             a == [s EXCEPT !.cursor_h2.data = y]
         IN  IF Len(s.h_cursor_clicks) < 2 THEN [a EXCEPT !.raised = TRUE]
             ELSE update_horizontal_delta(
                      [a EXCEPT !.h_cursor_clicks[2] = y, !.last_updated = "h"])
    ELSE s

(***************************************************************************)
(* Events.  Each event is handled to completion before the next one.       *)
(* `raised' records whether the handler of the last event raised.          *)
(***************************************************************************)
NumVisible(s) == Cardinality({c \in Channels : s.var_visible[c]})

\* events that are not about one channel carry no channel index
NoChannel == NumChannels

\* s at the entry of the handler of an event: nothing raised yet; last_event
\* records the event, the channel it is about and how many visibility boxes
\* are checked when the handler starts
Entry(s, kind, idx) ==
    [s EXCEPT !.raised = FALSE, !.last_event = <<kind, idx, NumVisible(s)>>]

\* event.inaxes == self.ax: the pointer is inside the current view limits
InAxes(s, x, y) ==
    /\ get_xlim(s)[1] <= x /\ x <= get_xlim(s)[2]
    /\ get_ylim(s)[1] <= y /\ y <= get_ylim(s)[2]

\* a pointer event outside the axes carries no data coordinates
Outside == <<0, 0>>

Press ==
    \E button \in Buttons :
        \/ \E pt \in Points :
               /\ InAxes(app, pt[1], pt[2])
               /\ Become(on_click(Entry(app, "press", NoChannel), TRUE, button, pt[1], pt[2]))
        \/ Become(on_click(Entry(app, "press", NoChannel), FALSE, button, Outside[1], Outside[2]))

Move ==
    \/ \E pt \in Points :
           /\ InAxes(app, pt[1], pt[2])
           /\ Become(on_drag(Entry(app, "move", NoChannel), TRUE, pt[1], pt[2]))
    \/ Become(on_drag(Entry(app, "move", NoChannel), FALSE, Outside[1], Outside[2]))

Release == Become(on_release(Entry(app, "release", NoChannel)))

\* the checkbutton toggles its variable, then runs its command
ToggleVisible ==
    \E idx \in Channels :
        Become(on_channel_visibility_change(
                   Entry([app EXCEPT !.var_visible[idx] = ~@], "visibility", idx), idx))

\* the combobox stores the selected value, then <<ComboboxSelected>> runs update_plot
SelectGain ==
    \E idx \in Channels, g \in GainChoices :
        Become(update_plot(Entry([app EXCEPT !.var_gain[idx] = g], "gain", idx)))

SelectActive ==
    \E idx \in Channels : Become(set_active_channel(Entry(app, "active", idx), idx))

Init ==
    /\ var_visible = [c \in Channels |-> TRUE]
    /\ var_gain = [c \in Channels |-> 10]
    /\ active_channel = 0
    /\ cursor_clicks = <<>>
    /\ h_cursor_clicks = <<>>
    /\ dragging = "None"
    /\ cursor1 = NewCursor
    /\ cursor2 = NewCursor
    /\ cursor_h1 = NewCursor
    /\ cursor_h2 = NewCursor
    /\ delta_text = NewText
    /\ delta_y_text = NewText
    /\ files = [c \in Channels |-> "absent"]
    /\ viewer = "open"
    /\ channel_data = create_dummy_data
    /\ lines = [c \in Channels |-> [k \in 1..Len(create_dummy_data[c + 1]) |->
                                        create_dummy_data[c + 1][k] * 10]]
    /\ raised = FALSE
    /\ last_updated = "none"
    /\ last_event = <<"init", NoChannel, NumChannels>>
    /\ events = 0

Next ==
    \/ Press
    \/ Move
    \/ Release
    \/ ToggleVisible
    \/ SelectGain
    \/ SelectActive

Spec == Init /\ [][Next]_vars

(***************************************************************************)
(* Properties                                                              *)
(***************************************************************************)
\* the event handled last, the channel it was about, and the number of
\* checked visibility boxes at the entry of its handler
(***************************************************************************)
(* Start-up: GainPlotApp(root) on the channel files found on disk.  The    *)
(* three read_csv calls run first and the first absent file raises         *)
(* FileNotFoundError, the only exception __init__ catches; the Time-column *)
(* check of the loop raises ValueError, which leaves __init__.             *)
(***************************************************************************)
Construct ==
    /\ viewer = "start"
    /\ IF \E c \in Channels : files[c] = "absent"
       THEN /\ viewer' = "open"
            /\ channel_data' = create_dummy_data
       ELSE IF \E c \in Channels : files[c] = "notime"
            THEN /\ viewer' = "aborted"
                 /\ channel_data' = NoData
            ELSE /\ viewer' = "open"
                 /\ channel_data' = read_csv
    /\ lines' = IF viewer' = "open"
                THEN [c \in Channels |-> [k \in 1..Len(channel_data'[c + 1]) |->
                                             channel_data'[c + 1][k] * 10]]
                ELSE NoLines
    /\ UNCHANGED <<var_visible, var_gain, active_channel, cursor_clicks,
                   h_cursor_clicks, dragging, cursor1, cursor2, cursor_h1,
                   cursor_h2, delta_text, delta_y_text, files, raised,
                   last_updated, last_event, events>>

\* the control panel alone, for a bounded number of events
PanelToggleVisible == events < MaxPanelEvents /\ ToggleVisible
PanelSelectActive == events < MaxPanelEvents /\ SelectActive
\* the combobox offers every entry of gain_values
PanelSelectGain ==
    /\ events < MaxPanelEvents
    /\ \E idx \in Channels, i \in 1..Len(gain_values) :
           Become(update_plot(Entry([app EXCEPT !.var_gain[idx] = gain_values[i]], "gain", idx)))

InitLoad ==
    /\ var_visible = [c \in Channels |-> TRUE]
    /\ var_gain = [c \in Channels |-> 10]
    /\ active_channel = 0
    /\ cursor_clicks = <<>>
    /\ h_cursor_clicks = <<>>
    /\ dragging = "None"
    /\ cursor1 = NewCursor
    /\ cursor2 = NewCursor
    /\ cursor_h1 = NewCursor
    /\ cursor_h2 = NewCursor
    /\ delta_text = NewText
    /\ delta_y_text = NewText
    /\ files \in [Channels -> FileStates]
    /\ viewer = "start"
    /\ channel_data = NoData
    /\ lines = NoLines
    /\ raised = FALSE
    /\ last_updated = "none"
    /\ last_event = <<"init", NoChannel, NumChannels>>
    /\ events = 0

NextLoad ==
    \/ Construct
    \/ PanelToggleVisible
    \/ PanelSelectActive

SpecLoad == InitLoad /\ [][NextLoad]_vars

NextGain ==
    \/ PanelSelectGain
    \/ PanelToggleVisible
    \/ PanelSelectActive

SpecGain == Init /\ [][NextGain]_vars

Kind == last_event[1]
Chan == last_event[2]
VisibleAtEntry == last_event[3]

OnlyVisible(c) == \A d \in Channels : var_visible[d] <=> (d = c)

\* C1: in every reachable state a drag in progress refers to a cursor that
\* exists: dragging v1 needs at least one vertical click, v2 needs two, and
\* likewise h1 and h2 for the horizontal clicks.
DraggedCursorExists ==
    /\ dragging = "v1" => Len(cursor_clicks) >= 1
    /\ dragging = "v2" => Len(cursor_clicks) = 2
    /\ dragging = "h1" => Len(h_cursor_clicks) >= 1
    /\ dragging = "h2" => Len(h_cursor_clicks) = 2

\* C2: no pointer press, move or release raises an error: the handler of
\* every event runs to completion, in particular a move during a drag finds
\* the entry of the dragged cursor in its click list.
NoHandlerRaises == ~raised

\* C3: both click lists hold at most two entries in every reachable state.
ClickListsAtMostTwo ==
    /\ Len(cursor_clicks) <= 2
    /\ Len(h_cursor_clicks) <= 2

\* both pairs are complete right after a press
BothPairsFullAfterPress ==
    /\ Kind = "press"
    /\ Len(cursor_clicks) = 2
    /\ Len(h_cursor_clicks) = 2

\* C4: after every event at least one channel is visible, and the active
\* channel index is the index of a channel.
SomeChannelVisible ==
    /\ \E c \in Channels : var_visible[c]
    /\ 0 <= active_channel /\ active_channel < NumChannels

\* the box of the only visible channel was unchecked, and a channel is visible
HidLastVisibleChannel ==
    /\ Kind = "visibility"
    /\ VisibleAtEntry = 0
    /\ \E c \in Channels : var_visible[c]

\* unchecking the box of channel idx while it is the only visible channel
HidesLastVisible(idx) ==
    /\ last_event'[1] = "visibility"
    /\ last_event'[2] = idx
    /\ OnlyVisible(idx)

ActivateClearsCursors ==
    Kind = "active" =>
        /\ active_channel = Chan
        /\ var_visible[Chan]
        /\ cursor_clicks = <<>>
        /\ h_cursor_clicks = <<>>
        /\ ~delta_text.visible
        /\ ~delta_y_text.visible

\* channel 2 was selected as active while it was the one hidden channel
ActivatedHiddenChannel ==
    /\ Kind = "active"
    /\ Chan = 2
    /\ VisibleAtEntry = 2
    /\ \A c \in Channels : var_visible[c]

\* C7: hiding the active channel empties both click lists and hides both
\* measurements; hiding another channel leaves both click lists and the
\* drag flag as they were.
HideClearsOnlyActive ==
    [][\A idx \in Channels :
          (last_event'[1] = "visibility" /\ last_event'[2] = idx /\ var_visible[idx]) =>
              IF idx = active_channel
              THEN /\ cursor_clicks' = <<>>
                   /\ h_cursor_clicks' = <<>>
                   /\ ~delta_text'.visible
                   /\ ~delta_y_text'.visible
              ELSE /\ cursor_clicks' = cursor_clicks
                   /\ h_cursor_clicks' = h_cursor_clicks
                   /\ dragging' = dragging]_vars

\* a channel other than the active one was hidden during a drag, and the
\* cursor is still there
HidOtherChannelDuringDrag ==
    /\ Kind = "visibility"
    /\ Chan # active_channel
    /\ ~var_visible[Chan]
    /\ Len(cursor_clicks) >= 1
    /\ dragging = "v1"

\* what the claims call the core state
Core(s) ==
    <<s.var_visible, s.active_channel, s.var_gain, s.cursor_clicks,
      s.h_cursor_clicks, s.dragging, s.delta_text.visible, s.delta_y_text.visible>>

\* C8: in every reachable state a redraw leaves channel visibility, active
\* channel, gains, both click lists, the drag flag and the visible
\* measurement as they are, and a second redraw changes nothing more.
RedrawKeepsCoreState ==
    /\ Core(plot(app)) = Core(app)
    /\ plot(plot(app)) = plot(app)

\* C9: a visible measurement is the one of the axis whose pair was completed
\* or updated last.
VisibleMeasurementIsMostRecent ==
    /\ delta_text.visible => last_updated = "v"
    /\ delta_y_text.visible => last_updated = "h"

\* C10: the time measurement and the amplitude measurement are never both
\* visible.
AtMostOneMeasurement == ~(delta_text.visible /\ delta_y_text.visible)

\* both pairs are complete and the time measurement is the one shown
TimeMeasurementShownWithBothPairs ==
    /\ Len(cursor_clicks) = 2
    /\ Len(h_cursor_clicks) = 2
    /\ delta_text.visible

\* |p - c| < 0.02 * W for the axis range lim of width W
WithinThreshold(p, c, lim) == 50 * Abs(p - c) < lim[2] - lim[1]

\* the step is the handling of a left / right press inside the axes at pt
LeftPressAt(pt) ==
    Become(on_click(Entry(app, "press", NoChannel), TRUE, 1, pt[1], pt[2]))
RightPressAt(pt) ==
    Become(on_click(Entry(app, "press", NoChannel), TRUE, 3, pt[1], pt[2]))

\* C11: with the active channel visible and two vertical clicks held, a left
\* press at p that is not within the threshold of either one leaves
\* cursor_clicks = <<p>>, hides the time measurement and leaves
\* h_cursor_clicks as it was; likewise a right press for the horizontal pair.
ThirdClickRestartsPair ==
    [][\A pt \in Points :
          /\ ( /\ var_visible[active_channel]
               /\ Len(cursor_clicks) = 2
               /\ \A i \in 1..2 :
                      ~WithinThreshold(pt[1], cursor_clicks[i], get_xlim(app))
               /\ LeftPressAt(pt) )
             => /\ cursor_clicks' = <<pt[1]>>
                /\ ~delta_text'.visible
                /\ h_cursor_clicks' = h_cursor_clicks
          /\ ( /\ var_visible[active_channel]
               /\ Len(h_cursor_clicks) = 2
               /\ \A i \in 1..2 :
                      ~WithinThreshold(pt[2], h_cursor_clicks[i], get_ylim(app))
               /\ RightPressAt(pt) )
             => /\ h_cursor_clicks' = <<pt[2]>>
                /\ ~delta_y_text'.visible
                /\ cursor_clicks' = cursor_clicks]_vars

\* a press restarted the vertical pair that a drag had closed to delta 0
ThirdClickRestartedPair ==
    /\ Kind = "press"
    /\ Len(cursor_clicks) = 1
    /\ cursor1.visible /\ ~cursor2.visible
    /\ ~delta_text.visible
    /\ delta_text.text # EmptyText
    /\ delta_text.text[2] = Infinite

\* the dragged cursor has an entry in its click list
DraggedEntryExists ==
    \/ dragging = "v1" /\ Len(cursor_clicks) >= 1
    \/ dragging = "v2" /\ Len(cursor_clicks) = 2
    \/ dragging = "h1" /\ Len(h_cursor_clicks) >= 1
    \/ dragging = "h2" /\ Len(h_cursor_clicks) = 2

\* index of the dragged cursor in its click list
DragIndex == IF dragging \in {"v1", "h1"} THEN 1 ELSE 2

\* a and b are equal except possibly at index i, and a new value there lies
\* within lim
OnlyEntryChanged(a, b, i, lim) ==
    /\ Len(b) = Len(a)
    /\ \A j \in 1..Len(a) : j # i => b[j] = a[j]
    /\ b[i] # a[i] => (lim[1] <= b[i] /\ b[i] <= lim[2])

\* C12: a pointer move handled during a drag of an existing cursor keeps the
\* length of both click lists, changes at most the entry of the dragged
\* cursor, stores a value within the current axis range there, and leaves
\* the other axis's list as it was.
DragMovesOnlyDraggedEntry ==
    [][(last_event'[1] = "move" /\ DraggedEntryExists) =>
          IF dragging \in {"v1", "v2"}
          THEN /\ OnlyEntryChanged(cursor_clicks, cursor_clicks', DragIndex, get_xlim(app))
               /\ h_cursor_clicks' = h_cursor_clicks
          ELSE /\ OnlyEntryChanged(h_cursor_clicks, h_cursor_clicks', DragIndex, get_ylim(app))
               /\ cursor_clicks' = cursor_clicks]_vars

\* a move dragged the second vertical cursor onto the first one
DraggedSecondOntoFirst ==
    /\ Kind = "move"
    /\ dragging = "v2"
    /\ Len(cursor_clicks) = 2
    /\ cursor_clicks[2] = cursor_clicks[1]
    /\ cursor2.data = cursor_clicks[2]

\* f, in 1/100 Hz, is 1/d (d in 1/100 s) to the nearest 1/100 Hz
IsFrequencyOf(f, d) == 2 * Abs(f * d - 10000) <= d

\* C13: whenever the vertical pair <<a, b>> is complete, by clicks or by a
\* drag, the time measurement is delta = |b - a| with frequency 1/delta, or
\* the infinite sentinel when delta = 0, and the move that updated it did not
\* raise; clicks at 1.00 s and 1.25 s give delta 0.25 s and 4.00 Hz.
VerticalMeasurementIsDelta ==
    Len(cursor_clicks) = 2 =>
        LET a == cursor_clicks[1]
            b == cursor_clicks[2]
            d == IF b >= a THEN b - a ELSE a - b
        IN  /\ Len(delta_text.text) = 3
            /\ delta_text.text[1] = d
            /\ IF d = 0
               THEN delta_text.text[2] = Infinite
               ELSE delta_text.text[2] > 0 /\ IsFrequencyOf(delta_text.text[2], d)
            /\ (a = 100 /\ b = 125) => (delta_text.text[1] = 25 /\ delta_text.text[2] = 400)
            /\ (Kind = "move" /\ dragging \in {"v1", "v2"}) => ~raised

\* a drag closed the vertical pair to delta 0 and the measurement is shown
ZeroDeltaShown ==
    /\ Len(cursor_clicks) = 2
    /\ cursor_clicks[1] = cursor_clicks[2]
    /\ delta_text.visible
    /\ delta_text.text[2] = Infinite

\* C14: a step that completes the horizontal pair with entries <<y0, y1>>
\* shows the amplitude measurement with delta = |y1 - y0| and no frequency
\* field, and leaves the time measurement hidden even if it was shown before.
HorizontalCompletionShowsDelta ==
    [][(Len(h_cursor_clicks) < 2 /\ Len(h_cursor_clicks') = 2) =>
          LET y0 == h_cursor_clicks'[1]
              y1 == h_cursor_clicks'[2]
              d  == IF y1 >= y0 THEN y1 - y0 ELSE y0 - y1
          IN  /\ delta_y_text'.visible
              /\ delta_y_text'.text = <<d, active_channel'>>
              /\ ~delta_text'.visible]_vars

\* a right click completed the amplitude pair while the time pair was complete
\* and its measurement had been computed; the time measurement is now hidden
AmplitudePairCompletedOverTimePair ==
    /\ Kind = "press"
    /\ last_updated = "h"
    /\ dragging = "None"
    /\ Len(h_cursor_clicks) = 2
    /\ h_cursor_clicks[1] # h_cursor_clicks[2]
    /\ Len(cursor_clicks) = 2
    /\ delta_y_text.visible
    /\ ~delta_text.visible
    /\ delta_text.text # EmptyText

\* C15: every drawn channel's series is its raw amplitude column times the
\* channel's current gain, a value of {0.5, 1, 2, 5, 10}, at every sample row
\* (a channel at gain 2 shows 2 * raw); and a gain selection on one channel
\* leaves the series of the other channels as they are.
DisplayedIsRawTimesGain ==
    /\ [](\A c \in Channels :
             /\ var_gain[c] \in {5, 10, 20, 50, 100}
             /\ var_visible[c] =>
                    /\ Len(lines[c]) = Len(channel_data[c + 1])
                    /\ Len(lines[c]) = Len(SampleRows)
                    /\ \A k \in 1..Len(lines[c]) :
                           /\ lines[c][k] = channel_data[c + 1][k] * var_gain[c]
                           /\ var_gain[c] = 20 => lines[c][k] = 2 * (channel_data[c + 1][k] * 10))
    /\ [][last_event'[1] = "gain" =>
              \A c \in Channels : c # last_event'[2] => lines'[c] = lines[c]]_vars

\* gains <<1, 2, 0.5>>: channel 2 was just set to gain 2 and shows 2 * raw
ChannelTwoAtGainTwo ==
    /\ Kind = "gain"
    /\ Chan = 1
    /\ var_gain[0] = 10
    /\ var_gain[1] = 20
    /\ var_gain[2] = 5
    /\ var_visible[1]
    /\ lines[1] = <<20000, -20000, -160>>

\* C16: for every combination of the three channel files being absent,
\* present without a Time column or present with one, a file without a Time
\* column means that loading fails and the viewer is never constructed.
MissingTimeColumnIsFatal ==
    (\E c \in Channels : files[c] = "notime") => viewer # "open"

\* the i-th cursor of a pair is placed and nearer to p than the threshold
PlacedNear(p, clicks, i, lim) ==
    Len(clicks) >= i /\ WithinThreshold(p, clicks[i], lim)

MeasurementsKept ==
    /\ cursor_clicks' = cursor_clicks
    /\ h_cursor_clicks' = h_cursor_clicks
    /\ delta_text' = delta_text
    /\ delta_y_text' = delta_y_text

\* C17: on a press inside the axes with the active channel visible, if a
\* placed cursor of the pressed axis is nearer to the pointer than 0.02 * W,
\* the press starts a drag of that cursor - the first cursor if both are
\* near - and changes neither click list nor either measurement, also when the
\* pair is full; the proximity test comes before any reset or append.  For
\* each pointer location next to a placed cursor, a press step either has
\* exactly that outcome or is not the press of that button at that location.
PressNearCursorStartsDrag ==
    [][(last_event'[1] = "press" /\ var_visible[active_channel]) =>
          LET xlim == get_xlim(app)
              ylim == get_ylim(app)
          IN  \A pt \in Points :
                  /\ (\/ PlacedNear(pt[1], cursor_clicks, 1, xlim)
                      \/ PlacedNear(pt[1], cursor_clicks, 2, xlim))
                     => \/ /\ dragging' = IF PlacedNear(pt[1], cursor_clicks, 1, xlim)
                                           THEN "v1" ELSE "v2"
                           /\ MeasurementsKept
                        \/ ~InAxes(app, pt[1], pt[2])
                        \/ ~LeftPressAt(pt)
                  /\ (\/ PlacedNear(pt[2], h_cursor_clicks, 1, ylim)
                      \/ PlacedNear(pt[2], h_cursor_clicks, 2, ylim))
                     => \/ /\ dragging' = IF PlacedNear(pt[2], h_cursor_clicks, 1, ylim)
                                           THEN "h1" ELSE "h2"
                           /\ MeasurementsKept
                        \/ ~InAxes(app, pt[1], pt[2])
                        \/ ~RightPressAt(pt)]_vars

\* a press on two coinciding vertical cursors of a full pair took the first
PressedOnCoincidingCursors ==
    /\ Kind = "press"
    /\ dragging = "v1"
    /\ Len(cursor_clicks) = 2
    /\ cursor_clicks[1] = cursor_clicks[2]
    /\ delta_text.visible

\* C18: while the active channel is hidden, a pointer press or move changes
\* neither click list, nor the drag flag, nor the visibility of either
\* measurement: the press records no click and starts no drag, and a move
\* with a pending drag updates nothing.
HiddenActiveIgnoresPointer ==
    [][(last_event'[1] \in {"press", "move"} /\ ~var_visible[active_channel]) =>
          /\ cursor_clicks' = cursor_clicks
          /\ h_cursor_clicks' = h_cursor_clicks
          /\ dragging' = dragging
          /\ delta_text'.visible = delta_text.visible
          /\ delta_y_text'.visible = delta_y_text.visible
          /\ ~raised']_vars

\* a move arrived with a drag pending and the active channel hidden
MovedWithHiddenActive ==
    /\ Kind = "move"
    /\ ~var_visible[active_channel]
    /\ dragging # "None"

\* C19: a pointer release sets the drag flag to None and changes nothing
\* else - click lists, glyphs, measurements, channel visibility, gains,
\* active channel and drawn series stay as they are; and the flag leaves None
\* only by a press, inside the axes with the active channel visible, next to
\* a placed cursor.
ReleaseOnlyClearsDragging ==
    [][/\ last_event'[1] = "release" =>
             /\ dragging' = "None"
             /\ ~raised'
             /\ <<var_visible, var_gain, active_channel, cursor_clicks, h_cursor_clicks,
                  cursor1, cursor2, cursor_h1, cursor_h2, delta_text, delta_y_text,
                  lines>>' =
                <<var_visible, var_gain, active_channel, cursor_clicks, h_cursor_clicks,
                  cursor1, cursor2, cursor_h1, cursor_h2, delta_text, delta_y_text,
                  lines>>
       /\ (dragging = "None" /\ dragging' # "None") =>
             /\ last_event'[1] = "press"
             /\ var_visible[active_channel]
             /\ \E pt \in Points :
                    /\ InAxes(app, pt[1], pt[2])
                    /\ \/ /\ dragging' \in {"v1", "v2"}
                          /\ PlacedNear(pt[1], cursor_clicks, DragIndex', get_xlim(app))
                       \/ /\ dragging' \in {"h1", "h2"}
                          /\ PlacedNear(pt[2], h_cursor_clicks, DragIndex', get_ylim(app))]_vars

\* a drag that closed the vertical pair was ended by a release
ReleasedAfterDrag ==
    /\ Kind = "release"
    /\ dragging = "None"
    /\ last_updated = "v"
    /\ Len(cursor_clicks) = 2
    /\ cursor_clicks[1] = cursor_clicks[2]

\* the absolute difference of the two entries of a complete pair
PairDelta(clicks) ==
    IF clicks[2] >= clicks[1] THEN clicks[2] - clicks[1] ELSE clicks[1] - clicks[2]

\* C20: after every event, a measurement is visible only if its cursor pair
\* has two entries, the active channel is visible, and the delta it displays
\* is the absolute difference of the pair's current entries, labelled with
\* the current active channel.
VisibleMeasurementIsCurrent ==
    /\ delta_text.visible =>
           /\ Len(cursor_clicks) = 2
           /\ var_visible[active_channel]
           /\ delta_text.text[1] = PairDelta(cursor_clicks)
           /\ delta_text.text[3] = active_channel
    /\ delta_y_text.visible =>
           /\ Len(h_cursor_clicks) = 2
           /\ var_visible[active_channel]
           /\ delta_y_text.text[1] = PairDelta(h_cursor_clicks)
           /\ delta_y_text.text[2] = active_channel

\* a drag changed an entry of the amplitude pair and its measurement is shown
AmplitudeMeasurementAfterDrag ==
    /\ Kind = "move"
    /\ dragging = "h1"
    /\ Len(h_cursor_clicks) = 2
    /\ h_cursor_clicks[1] = h_cursor_clicks[2]
    /\ delta_y_text.visible
    /\ delta_y_text.text[1] = 0

====
